---- MODULE Spec2Model ----
(***************************************************************************)
(* ARKANUM SENTINEL (src/Main.py): CFDI ingestion, concept classification, *)
(* risk scoring, alerting, evidence upload and ledger exports, with the    *)
(* JSON-file persistence of the four collections.                          *)
(*                                                                         *)
(* Text that the program inspects (concept descriptions, numeric           *)
(* attributes) is a sequence of one-character strings; text it only        *)
(* carries around (RFCs, file names, dates) is an opaque string.           *)
(***************************************************************************)
EXTENDS Integers, Sequences, FiniteSets, TLC

VARIABLES
    CFDIS,      \* in-memory invoice store (Main.py:39)
    EVIDENCES,  \* in-memory evidence store (Main.py:40)
    LOGS,       \* in-memory audit log (Main.py:41)
    ALERTS,     \* in-memory alert store (Main.py:42)
    disk,       \* data/*.json and data/*.csv: file name -> [valid, data]
    session,    \* the client's session cookie: the logged-in user or None
    next_uuid,  \* number of uuid.uuid4() values in use (the next one is fresh)
    clock,      \* number of datetime.now() readings so far
    response,   \* the answer to the request handled last
    pending,    \* SpecCrash: the steps of the request in progress still to run
    up,         \* SpecCrash: the process is running (its start-up loads succeeded)
    call        \* SpecPure: arguments and result of a direct function call

vars == <<CFDIS, EVIDENCES, LOGS, ALERTS, disk, session, next_uuid, clock,
          response, pending, up, call>>

-----------------------------------------------------------------------------
(* Bounds of the model *)

\* uuid4 values the model lets the program draw
MaxUuid == 6
\* audit-log entries the model lets the program write
MaxLogs == 4
\* evidence records the model lets the program store
MaxEvidences == 1
\* word fragments concatenated into a text given to classify_concept
MaxWords == 2
\* evidence records in a list given directly to risk_engine
MaxEvidArg == 2

-----------------------------------------------------------------------------
(* Python values *)

None == "None"

\* str.upper() on the letters the inputs use
LowerCase == <<"a","b","c","d","e","f","g","h","i","j","k","l","m",
               "n","o","p","q","r","s","t","u","v","w","x","y","z">>
UpperCase == <<"A","B","C","D","E","F","G","H","I","J","K","L","M",
               "N","O","P","Q","R","S","T","U","V","W","X","Y","Z">>

\* ch.upper() for one character
UpperOf == [i \in 1..Len(LowerCase) |-> UpperCase[i]]
UpperChar(ch) ==
    LET at == {i \in 1..Len(LowerCase) : LowerCase[i] = ch}
    IN IF at = {} THEN ch ELSE UpperOf[CHOOSE i \in at : TRUE]

upper(s) == [i \in 1..Len(s) |-> UpperChar(s[i])]

\* the `in` operator on strings: kw occurs in s as a contiguous substring
StrIn(kw, s) ==
    \E i \in 1..(Len(s) - Len(kw) + 1) : SubSeq(s, i, i + Len(kw) - 1) = kw

\* a + b + ... : concatenation of a sequence of strings
RECURSIVE Concat(_)
Concat(ws) == IF ws = <<>> THEN <<>> ELSE Head(ws) \o Concat(Tail(ws))

-----------------------------------------------------------------------------
(* Classification and risk (Main.py:96-173) *)

SERVICIOS == "SERVICIOS PROFESIONALES"
ARRENDAMIENTO == "ARRENDAMIENTO"
PUBLICIDAD == "PUBLICIDAD"
GENERICO == "GENERICO"

Categories == {SERVICIOS, ARRENDAMIENTO, PUBLICIDAD, GENERICO}

TAXONOMY(k) ==
    CASE k = SERVICIOS ->
           [materialidad |-> <<"Contrato", "SLA", "Orden de Servicio", "Entregables",
                               "Evidencia de prestacion">>,
            isr_deductible |-> TRUE, iva_creditable |-> TRUE]
      [] k = ARRENDAMIENTO ->
           [materialidad |-> <<"Contrato de arrendamiento", "Comprobante de pago",
                               "Uso del bien">>,
            isr_deductible |-> TRUE, iva_creditable |-> TRUE]
      [] k = PUBLICIDAD ->
           [materialidad |-> <<"Contrato", "Brief", "Pautas", "Reportes", "Evidencia">>,
            isr_deductible |-> TRUE, iva_creditable |-> TRUE]
      [] k = GENERICO ->
           [materialidad |-> <<"Contrato", "Orden de compra", "Evidencia">>,
            isr_deductible |-> FALSE, iva_creditable |-> FALSE]

KwSERV == <<"S","E","R","V">>
KwARREND == <<"A","R","R","E","N","D">>
KwPUBLI == <<"P","U","B","L","I">>
KwMARKET == <<"M","A","R","K","E","T">>

\* classify_concept with "RENT" added to the leasing keywords
classify_concept_with_renta(concept) ==
    LET c == upper(concept) IN
    IF StrIn(KwSERV, c) THEN SERVICIOS
    ELSE IF StrIn(KwARREND, c) \/ StrIn(<<"R","E","N","T">>, c) THEN ARRENDAMIENTO
    ELSE IF StrIn(KwPUBLI, c) \/ StrIn(KwMARKET, c) THEN PUBLICIDAD
    ELSE GENERICO

\* classify_concept without the .upper(): the keywords match in capitals only
classify_concept_case_sensitive(concept) ==
    IF StrIn(KwSERV, concept) THEN SERVICIOS
    ELSE IF StrIn(KwARREND, concept) THEN ARRENDAMIENTO
    ELSE IF StrIn(KwPUBLI, concept) \/ StrIn(KwMARKET, concept) THEN PUBLICIDAD
    ELSE GENERICO

classify_concept(concept) ==
    LET c == upper(concept) IN
    IF StrIn(KwSERV, c) THEN SERVICIOS
    ELSE IF StrIn(KwARREND, c) THEN ARRENDAMIENTO
    ELSE IF StrIn(KwPUBLI, c) \/ StrIn(KwMARKET, c) THEN PUBLICIDAD
    ELSE GENERICO

ReasonEfos == "Proveedor en lista EFOS"
ReasonNoEvidence == "Sin evidencias cargadas"
ReasonGeneric == "Concepto generico"

\* risk_engine with the level thresholds strict (risk > 60, risk > 30)
risk_engine_strict_thresholds(cfdi, efos_check, evidences) ==
    LET risk == (IF efos_check.is_efos THEN 60 ELSE 0)
                + (IF evidences = <<>> THEN 25 ELSE 0)
                + (IF cfdi.concept_type = GENERICO THEN 15 ELSE 0)
        reasons == (IF efos_check.is_efos THEN <<ReasonEfos>> ELSE <<>>)
                   \o (IF evidences = <<>> THEN <<ReasonNoEvidence>> ELSE <<>>)
                   \o (IF cfdi.concept_type = GENERICO THEN <<ReasonGeneric>> ELSE <<>>)
        level == IF risk > 60 THEN "ALTO" ELSE IF risk > 30 THEN "MEDIO" ELSE "BAJO"
    IN [score |-> risk, level |-> level, reasons |-> reasons]

risk_engine(cfdi, efos_check, evidences) ==
    LET r0 == [risk |-> 0, reasons |-> <<>>]
        r1 == IF efos_check.is_efos
              THEN [risk |-> r0.risk + 60, reasons |-> Append(r0.reasons, ReasonEfos)]
              ELSE r0
        r2 == IF evidences = <<>>
              THEN [risk |-> r1.risk + 25, reasons |-> Append(r1.reasons, ReasonNoEvidence)]
              ELSE r1
        r3 == IF cfdi.concept_type = GENERICO
              THEN [risk |-> r2.risk + 15, reasons |-> Append(r2.reasons, ReasonGeneric)]
              ELSE r2
        level == IF r3.risk >= 60 THEN "ALTO"
                 ELSE IF r3.risk >= 30 THEN "MEDIO"
                 ELSE "BAJO"
    IN [score |-> r3.risk, level |-> level, reasons |-> r3.reasons]

-----------------------------------------------------------------------------
(* Registry check, memo, justification (Main.py:79-156) *)

demo_efos == {"AAA010101AAA", "EFX990909EFX"}

check_rfc_efos(rfc, now) ==
    [rfc |-> rfc, is_efos |-> rfc \in demo_efos, source |-> "SAT/DOF (demo)",
     checked_at |-> now]

\* the f-string's three substituted values, in the order the template uses them
business_reason_art5(cfdi) ==
    [operacion |-> cfdi.concept, proveedor |-> cfdi.emisor_rfc,
     contraprestacion |-> cfdi.total]

calc_memoria(cfdi, taxonomy) ==
    [base |-> cfdi.subtotal, iva |-> cfdi.iva, total |-> cfdi.total,
     fundamento |-> "LISR Art. 25, LIVA Art. 5, CFF Art. 5",
     documentos_requeridos |-> taxonomy.materialidad]

-----------------------------------------------------------------------------
(* CFDI parser (Main.py:178-201) *)

Digits == <<"0","1","2","3","4","5","6","7","8","9">>

IsDigit(ch) == \E i \in 1..10 : Digits[i] = ch
DigitVal(ch) == (CHOOSE i \in 1..10 : Digits[i] = ch) - 1

RECURSIVE NatOf(_)
NatOf(ds) == IF ds = <<>> THEN 0
             ELSE 10 * NatOf(SubSeq(ds, 1, Len(ds) - 1)) + DigitVal(ds[Len(ds)])

\* float(): the decimal literals "ddd" and "ddd.dd" are read (as hundredths);
\* any other text the inputs contain raises ValueError
float(s) ==
    LET dots == {i \in 1..Len(s) : s[i] = "."}
        allDigits(t) == t # <<>> /\ \A i \in 1..Len(t) : IsDigit(t[i])
    IN IF dots = {} /\ allDigits(s)
       THEN [ok |-> TRUE, val |-> 100 * NatOf(s)]
       ELSE IF Cardinality(dots) = 1
            THEN LET d == CHOOSE i \in dots : TRUE
                     ip == SubSeq(s, 1, d - 1)
                     fp == SubSeq(s, d + 1, Len(s))
                 IN IF allDigits(ip) /\ allDigits(fp) /\ Len(fp) = 2
                    THEN [ok |-> TRUE, val |-> 100 * NatOf(ip) + NatOf(fp)]
                    ELSE [ok |-> FALSE, val |-> 0]
            ELSE [ok |-> FALSE, val |-> 0]

\* root.attrib.get(name, 0) followed by float(): an absent attribute reads as 0
float_attr(attrib, name) ==
    IF name \in DOMAIN attrib THEN float(attrib[name]) ELSE [ok |-> TRUE, val |-> 0]

NoData == [uuid |-> 0]

\* parse_cfdi_xml reading a missing first Concepto as an empty description
parse_cfdi_xml_no_concepto_check(doc, uuid) ==
    LET subtotal == float_attr(doc.attrib, "SubTotal")
        total == float_attr(doc.attrib, "Total")
    IN IF ~doc.wellformed \/ ~doc.Conceptos \/ ~subtotal.ok \/ ~total.ok
       THEN [ok |-> FALSE, data |-> NoData]
       ELSE IF ~doc.Emisor \/ ~doc.Receptor
       THEN [ok |-> FALSE, data |-> NoData]
       ELSE [ok |-> TRUE,
             data |-> [uuid |-> uuid,
                       emisor_rfc |-> doc.EmisorRfc,
                       receptor_rfc |-> doc.ReceptorRfc,
                       concept |-> IF doc.Concepto THEN doc.Descripcion ELSE <<>>,
                       subtotal |-> subtotal.val,
                       iva |-> total.val - subtotal.val,
                       total |-> total.val,
                       fecha |-> doc.attrib.Fecha]]

\* The result of parse_cfdi_xml on document doc when uuid4() returns uuid:
\* ok = it returned data, ~ok = it raised (the checks in the order they run).
parse_cfdi_xml(doc, uuid) ==
    LET subtotal == float_attr(doc.attrib, "SubTotal")
        total == float_attr(doc.attrib, "Total")
    IN IF ~doc.wellformed THEN [ok |-> FALSE, data |-> NoData]
       ELSE IF ~doc.Conceptos THEN [ok |-> FALSE, data |-> NoData]
       ELSE IF ~subtotal.ok THEN [ok |-> FALSE, data |-> NoData]
       ELSE IF ~total.ok THEN [ok |-> FALSE, data |-> NoData]
       ELSE IF ~doc.Emisor THEN [ok |-> FALSE, data |-> NoData]
       ELSE IF ~doc.Receptor THEN [ok |-> FALSE, data |-> NoData]
       ELSE IF ~doc.Concepto THEN [ok |-> FALSE, data |-> NoData]
       ELSE [ok |-> TRUE,
             data |-> [uuid |-> uuid,
                       emisor_rfc |-> doc.EmisorRfc,
                       receptor_rfc |-> doc.ReceptorRfc,
                       concept |-> doc.Descripcion,
                       subtotal |-> subtotal.val,
                       iva |-> total.val - subtotal.val,
                       total |-> total.val,
                       fecha |-> doc.attrib.Fecha]]

-----------------------------------------------------------------------------
(* Requests the model sends *)

USERS == [u \in {"director@arkanum", "contador@arkanum"} |->
            IF u = "director@arkanum"
            THEN [password |-> "1234", role |-> "DIRECTOR"]
            ELSE [password |-> "1234", role |-> "CONTADOR"]]

LoginForms == {[email |-> "director@arkanum", password |-> "1234"],
               [email |-> "director@arkanum", password |-> "0000"],
               [email |-> "nadie@arkanum", password |-> "1234"]}

RentaDeOficina == <<"R","e","n","t","a"," ","d","e"," ","o","f","i","c","i","n","a">>
ArrendamientoDeLocal == <<"A","r","r","e","n","d","a","m","i","e","n","t","o"," ","d","e"," ","l","o","c","a","l">>

Descriptions == {RentaDeOficina, ArrendamientoDeLocal}

Rfcs == {"AAA010101AAA", "XAXX010101000"}

Amount100 == <<"1","0","0",".","0","0">>
Amount116 == <<"1","1","6",".","0","0">>
NotANumber == <<"a","b","c">>

FullAttrib == [SubTotal |-> Amount100, Total |-> Amount116, Fecha |-> "2024-01-15"]

\* a complete CFDI 3.x document from issuer rfc with first concept desc
GoodDoc(rfc, desc) ==
    [filename |-> "factura.xml", wellformed |-> TRUE,
     attrib |-> FullAttrib,
     Emisor |-> TRUE, EmisorRfc |-> rfc,
     Receptor |-> TRUE, ReceptorRfc |-> "BBB020202BBB",
     Conceptos |-> TRUE, Concepto |-> TRUE, Descripcion |-> desc]

BaseDoc == GoodDoc("XAXX010101000", ArrendamientoDeLocal)

\* BaseDoc with one thing wrong
FlawedDocs ==
    { [BaseDoc EXCEPT !.wellformed = FALSE],
      [BaseDoc EXCEPT !.Emisor = FALSE],
      [BaseDoc EXCEPT !.Receptor = FALSE],
      [BaseDoc EXCEPT !.Conceptos = FALSE, !.Concepto = FALSE],
      [BaseDoc EXCEPT !.Concepto = FALSE],
      [BaseDoc EXCEPT !.attrib = [Total |-> Amount116, Fecha |-> "2024-01-15"]],
      [BaseDoc EXCEPT !.attrib = [SubTotal |-> Amount100, Fecha |-> "2024-01-15"]],
      [BaseDoc EXCEPT !.attrib = [FullAttrib EXCEPT !.SubTotal = NotANumber]],
      [BaseDoc EXCEPT !.attrib = [FullAttrib EXCEPT !.Total = NotANumber]] }

Docs == {GoodDoc(r, d) : r \in Rfcs, d \in Descriptions} \cup FlawedDocs

EvidenceFiles == {[filename |-> "contrato.pdf", bytes |-> "pdf-bytes"]}

\* the cfdi_uuid form field is free text: any identifier, drawn yet or not
FormUuids == 1..MaxUuid

-----------------------------------------------------------------------------
(* Files (Main.py:22-33, 57-62) *)

DbFiles == {"cfdis.json", "evidences.json", "logs.json", "alerts.json"}
ExportFiles == {"cedula_isr.csv", "cedula_iva.csv", "arkanum_export.json"}

\* a file is absent, complete (data is its content), or partial: opened for
\* writing, hence truncated, and not yet written and closed
Absent == [state |-> "absent", data |-> <<>>]
Partial == [state |-> "partial", data |-> <<>>]
Complete(data) == [state |-> "complete", data |-> data]

\* save_db as one step: open(path, "w"), json.dump, close
save_db(d, name, data) == [d EXCEPT ![name] = Complete(data)]

\* f.save(path): the upload directory keeps one file per file name (the model
\* keeps the names; a file's content is read only by the request that saved it)
f_save(d, f) == [d EXCEPT !["uploads"] = @ \cup {f.filename}]

hash_file(f) == <<"sha256", f.bytes>>

\* what the collections persisted in d hold, as far as they can be read back
Persisted(d, name) == IF d[name].state = "complete" THEN d[name].data ELSE <<>>

\* an HTTP response: status line, and for a download the file's name and content
Resp(status) == [status |-> status, name |-> None, body |-> Absent]
Download(name, file) == [status |-> "200 attachment", name |-> name, body |-> file]

\* the entry log() appends
log_entry(action, detail, uuid, now) ==
    [id |-> uuid, ts |-> now, user |-> session, action |-> action, detail |-> detail]

-----------------------------------------------------------------------------
(* Start-up (Main.py:35-42, with an empty data directory) *)

NoCall == [fn |-> "none"]

Init ==
    /\ CFDIS = <<>>
    /\ EVIDENCES = <<>>
    /\ LOGS = <<>>
    /\ ALERTS = <<>>
    /\ disk = [n \in DbFiles \cup ExportFiles \cup {"uploads"} |->
                 IF n = "uploads" THEN {} ELSE Absent]
    /\ session = None
    /\ next_uuid = 0
    /\ clock = 0
    /\ response = Resp("none")
    /\ pending = <<>>
    /\ up = TRUE
    /\ call = NoCall

-----------------------------------------------------------------------------
(* Request handlers, each run to completion (Main.py:212-360) *)

\* log() inserting the entry at the head of LOGS (newest first)
log_newest_first(entry) == <<entry>> \o LOGS

\* log(): LOGS.append(entry), the value LOGS has afterwards (Main.py:47-54)
log(entry) == Append(LOGS, entry)

\* a handler that logs draws one uuid and appends one entry
CanLog(uuids) == Len(LOGS) < MaxLogs /\ next_uuid + uuids <= MaxUuid

\* login_required(): no user in the session -> redirect to the login page
Redirected ==
    /\ session = None
    /\ response' = Resp("302 /login")
    /\ UNCHANGED <<CFDIS, EVIDENCES, LOGS, ALERTS, disk, session, next_uuid, clock,
                   pending, up, call>>

login(form) ==
    /\ IF form.email \in DOMAIN USERS /\ USERS[form.email].password = form.password
       THEN /\ CanLog(1)
            /\ session' = form.email
            /\ LET e == [log_entry("LOGIN", "", next_uuid + 1, clock + 1)
                           EXCEPT !.user = form.email]
               IN /\ LOGS' = log(e)
                  /\ disk' = save_db(disk, "logs.json", LOGS')
            /\ next_uuid' = next_uuid + 1
            /\ clock' = clock + 1
            /\ response' = Resp("302 /dashboard")
       ELSE /\ response' = Resp("200 login page")
            /\ UNCHANGED <<LOGS, disk, session, next_uuid, clock>>
    /\ UNCHANGED <<CFDIS, EVIDENCES, ALERTS, pending, up, call>>

logout ==
    /\ CanLog(1)
    /\ LET e == log_entry("LOGOUT", "", next_uuid + 1, clock + 1)
       IN /\ LOGS' = log(e)
          /\ disk' = save_db(disk, "logs.json", LOGS')
    /\ next_uuid' = next_uuid + 1
    /\ clock' = clock + 1
    /\ session' = None
    /\ response' = Resp("302 /login")
    /\ UNCHANGED <<CFDIS, EVIDENCES, ALERTS, pending, up, call>>

\* the evidence filter without its identifier test: every stored record
evidences_of_any(uuid) == EVIDENCES

\* evidence linked to an invoice identifier (Main.py:256)
evidences_of(uuid) == SelectSeq(EVIDENCES, LAMBDA e : e.cfdi_uuid = uuid)

\* the record upload_cfdi assembles from the parser's data (Main.py:249-267)
cfdi_record(data, now) ==
    LET concept_type == classify_concept(data.concept)
        typed == [uuid |-> data.uuid, emisor_rfc |-> data.emisor_rfc,
                  receptor_rfc |-> data.receptor_rfc, concept |-> data.concept,
                  subtotal |-> data.subtotal, iva |-> data.iva, total |-> data.total,
                  fecha |-> data.fecha, concept_type |-> concept_type]
        taxonomy == TAXONOMY(concept_type)
        efos == check_rfc_efos(data.emisor_rfc, now + 1)
        risk == risk_engine(typed, efos, evidences_of(data.uuid))
    IN [uuid |-> data.uuid, emisor_rfc |-> data.emisor_rfc,
        receptor_rfc |-> data.receptor_rfc, concept |-> data.concept,
        subtotal |-> data.subtotal, iva |-> data.iva, total |-> data.total,
        fecha |-> data.fecha, concept_type |-> concept_type,
        taxonomy |-> taxonomy, efos |-> efos,
        memoria |-> calc_memoria(typed, taxonomy),
        razon_negocio |-> business_reason_art5(typed),
        riesgo |-> risk, created_at |-> now + 2]

\* alerting on ALTO only
alerts_on_high_only(risk) == risk.level = "ALTO"

\* whether upload_cfdi raises an alert for a risk assessment (Main.py:271)
alerts_on(risk) == risk.level # "BAJO"

alert_record(record, uuid, now) ==
    [id |-> uuid, cfdi_uuid |-> record.uuid, level |-> record.riesgo.level,
     reasons |-> record.riesgo.reasons, ts |-> now]

upload_cfdi(doc) ==
    LET p == parse_cfdi_xml(doc, next_uuid + 1)
        record == cfdi_record(p.data, clock)
        alert == alert_record(record, next_uuid + 2, clock + 3)
        alerted == alerts_on(record.riesgo)
        k == IF alerted THEN 1 ELSE 0
        e == log_entry("UPLOAD_CFDI", doc.filename, next_uuid + 2 + k, clock + 3 + k)
    IN \/ Redirected
       \/ /\ session # None
          /\ IF ~p.ok
             THEN /\ response' = Resp("500")
                  /\ disk' = f_save(disk, doc)
                  /\ UNCHANGED <<CFDIS, ALERTS, LOGS, next_uuid, clock>>
             ELSE /\ CanLog(2)
                  /\ response' = Resp("302 /dashboard")
                  /\ CanLog(2 + k)
                  /\ CFDIS' = Append(CFDIS, record)
                  /\ ALERTS' = IF alerted THEN Append(ALERTS, alert) ELSE ALERTS
                  /\ LOGS' = log(e)
                  /\ disk' = LET d1 == f_save(disk, doc)
                                 d2 == save_db(d1, "cfdis.json", CFDIS')
                                 d3 == IF alerted THEN save_db(d2, "alerts.json", ALERTS')
                                       ELSE d2
                             IN save_db(d3, "logs.json", LOGS')
                  /\ next_uuid' = next_uuid + 2 + k
                  /\ clock' = clock + 3 + k
          /\ UNCHANGED <<EVIDENCES, session, pending, up, call>>

\* upload_evidence that scores the invoices of cfdi_uuid again with the new evidence
upload_evidence_rescoring(cfdi_uuid, f) ==
    LET ev == [id |-> next_uuid + 1, cfdi_uuid |-> cfdi_uuid, filename |-> f.filename,
               hash |-> hash_file(f), uploaded_at |-> clock + 1]
        e == log_entry("UPLOAD_EVIDENCE", f.filename, next_uuid + 2, clock + 2)
    IN \/ Redirected
       \/ /\ session # None
          /\ CanLog(2)
          /\ Len(EVIDENCES) < MaxEvidences
          /\ EVIDENCES' = Append(EVIDENCES, ev)
          /\ CFDIS' = [i \in 1..Len(CFDIS) |->
                         IF CFDIS[i].uuid = cfdi_uuid
                         THEN [CFDIS[i] EXCEPT !.riesgo =
                                 risk_engine(CFDIS[i], CFDIS[i].efos, <<ev>>)]
                         ELSE CFDIS[i]]
          /\ LOGS' = log(e)
          /\ disk' = save_db(save_db(save_db(f_save(disk, f), "evidences.json", EVIDENCES'),
                                     "cfdis.json", CFDIS'), "logs.json", LOGS')
          /\ next_uuid' = next_uuid + 2
          /\ clock' = clock + 2
          /\ response' = Resp("302 /dashboard")
          /\ UNCHANGED <<ALERTS, session, pending, up, call>>

upload_evidence(cfdi_uuid, f) ==
    LET ev == [id |-> next_uuid + 1, cfdi_uuid |-> cfdi_uuid, filename |-> f.filename,
               hash |-> hash_file(f), uploaded_at |-> clock + 1]
        e == log_entry("UPLOAD_EVIDENCE", f.filename, next_uuid + 2, clock + 2)
    IN \/ Redirected
       \/ /\ session # None
          /\ CanLog(2)
          /\ Len(EVIDENCES) < MaxEvidences
          /\ EVIDENCES' = Append(EVIDENCES, ev)
          /\ LOGS' = log(e)
          /\ disk' = save_db(save_db(f_save(disk, f), "evidences.json", EVIDENCES'),
                             "logs.json", LOGS')
          /\ next_uuid' = next_uuid + 2
          /\ clock' = clock + 2
          /\ response' = Resp("302 /dashboard")
          /\ UNCHANGED <<CFDIS, ALERTS, session, pending, up, call>>

-----------------------------------------------------------------------------
(* Exports (Main.py:309-360) *)

IsrFields == <<"uuid", "rfc_emisor", "concepto", "base", "deducible">>
IvaFields == <<"uuid", "rfc_emisor", "concepto", "iva", "acreditable">>

\* the rows export_isr collects (Main.py:312-321)
isr_rows(cfdis) ==
    LET sel == SelectSeq(cfdis, LAMBDA c : c.taxonomy.isr_deductible)
    IN [i \in 1..Len(sel) |->
          [uuid |-> sel[i].uuid, rfc_emisor |-> sel[i].emisor_rfc,
           concepto |-> sel[i].concept, base |-> sel[i].memoria.base,
           deducible |-> TRUE]]

\* the rows export_iva collects (Main.py:334-343)
iva_rows(cfdis) ==
    LET sel == SelectSeq(cfdis, LAMBDA c : c.taxonomy.iva_creditable)
    IN [i \in 1..Len(sel) |->
          [uuid |-> sel[i].uuid, rfc_emisor |-> sel[i].emisor_rfc,
           concepto |-> sel[i].concept, iva |-> sel[i].memoria.iva,
           acreditable |-> TRUE]]

\* the writer with writeheader() outside the `if out:` test
csv_lines_always_header(out, fields) ==
    <<fields>> \o [i \in 1..Len(out) |-> [j \in 1..Len(fields) |-> out[i][fields[j]]]]

\* the lines csv.DictWriter leaves in the file: the header (the first row's keys)
\* and one line of values per row, or nothing at all when there is no row
csv_lines(out, fields) ==
    IF out # <<>>
    THEN <<fields>> \o [i \in 1..Len(out) |-> [j \in 1..Len(fields) |-> out[i][fields[j]]]]
    ELSE <<>>

export_csv(name, action, out, fields) ==
    LET e == log_entry(action, "", next_uuid + 1, clock + 1)
    IN \/ Redirected
       \/ /\ session # None
          /\ CanLog(1)
          /\ LOGS' = log(e)
          /\ disk' = save_db([disk EXCEPT ![name] = Complete(csv_lines(out, fields))],
                             "logs.json", LOGS')
          /\ next_uuid' = next_uuid + 1
          /\ clock' = clock + 1
          /\ response' = Download(name, disk'[name])
          /\ UNCHANGED <<CFDIS, EVIDENCES, ALERTS, session, pending, up, call>>

export_isr ==
    export_csv("cedula_isr.csv", "EXPORT_ISR", isr_rows(CFDIS), IsrFields)

export_iva ==
    export_csv("cedula_iva.csv", "EXPORT_IVA", iva_rows(CFDIS), IvaFields)

export_json ==
    LET e == log_entry("EXPORT_JSON", "", next_uuid + 1, clock + 1)
        dump == [cfdis |-> CFDIS, alerts |-> ALERTS, logs |-> LOGS]
    IN \/ Redirected
       \/ /\ session # None
          /\ CanLog(1)
          /\ LOGS' = log(e)
          /\ disk' = save_db([disk EXCEPT !["arkanum_export.json"] = Complete(dump)],
                             "logs.json", LOGS')
          /\ next_uuid' = next_uuid + 1
          /\ clock' = clock + 1
          /\ response' = Download("arkanum_export.json", disk'["arkanum_export.json"])
          /\ UNCHANGED <<CFDIS, EVIDENCES, ALERTS, session, pending, up, call>>

Next ==
    \/ \E form \in LoginForms : login(form)
    \/ logout
    \/ \E doc \in Docs : upload_cfdi(doc)
    \/ \E u \in FormUuids, f \in EvidenceFiles : upload_evidence(u, f)
    \/ export_isr
    \/ export_iva
    \/ export_json

Spec == Init /\ [][Next]_vars

-----------------------------------------------------------------------------
(* The same handlers step by step, with the process killed at any step.     *)
(* A handler's effects on the collections and their files run in the order  *)
(* of its statements; save_db is two steps, as open(path, "w") truncates    *)
(* the file before json.dump writes it.  A killed process loses the         *)
(* in-memory collections; a restart loads them from the files.              *)

Collection(name) ==
    CASE name = "cfdis.json" -> CFDIS
      [] name = "evidences.json" -> EVIDENCES
      [] name = "logs.json" -> LOGS
      [] name = "alerts.json" -> ALERTS

\* the steps of X.append(rec); save_db(name, X)
append_and_save(name, rec) ==
    << <<"append", name, rec>>, <<"open", name, None>>, <<"dump", name, None>> >>

\* the session cookie reaches the client with the response
start_login(form) ==
    /\ up /\ pending = <<>>
    /\ IF form.email \in DOMAIN USERS /\ USERS[form.email].password = form.password
       THEN /\ CanLog(1)
            /\ pending' = append_and_save("logs.json",
                              [log_entry("LOGIN", "", next_uuid + 1, clock + 1)
                                 EXCEPT !.user = form.email])
                          \o << <<"respond", Resp("302 /dashboard"), form.email>> >>
            /\ next_uuid' = next_uuid + 1
            /\ clock' = clock + 1
            /\ UNCHANGED response
       ELSE /\ response' = Resp("200 login page")
            /\ UNCHANGED <<pending, next_uuid, clock>>
    /\ UNCHANGED <<CFDIS, EVIDENCES, LOGS, ALERTS, disk, session, up, call>>

start_upload_cfdi(doc) ==
    LET p == parse_cfdi_xml(doc, next_uuid + 1)
        record == cfdi_record(p.data, clock)
        alert == alert_record(record, next_uuid + 2, clock + 3)
        alerted == alerts_on(record.riesgo)
        k == IF alerted THEN 1 ELSE 0
        e == log_entry("UPLOAD_CFDI", doc.filename, next_uuid + 2 + k, clock + 3 + k)
    IN /\ up /\ pending = <<>>
       /\ \/ Redirected
          \/ /\ session # None
             /\ disk' = f_save(disk, doc)
             /\ IF ~p.ok
                THEN /\ response' = Resp("500")
                     /\ UNCHANGED <<pending, next_uuid, clock>>
                ELSE /\ CanLog(2)
                     /\ CanLog(2 + k)
                     /\ pending' = append_and_save("cfdis.json", record)
                                   \o (IF alerted
                                       THEN append_and_save("alerts.json", alert)
                                       ELSE <<>>)
                                   \o append_and_save("logs.json", e)
                                   \o << <<"respond", Resp("302 /dashboard"), session>> >>
                     /\ next_uuid' = next_uuid + 2 + k
                     /\ clock' = clock + 3 + k
                     /\ UNCHANGED response
             /\ UNCHANGED <<CFDIS, EVIDENCES, LOGS, ALERTS, session, up, call>>

run_step ==
    /\ up /\ pending # <<>>
    /\ pending' = Tail(pending)
    /\ LET op == Head(pending)[1]
           name == Head(pending)[2]
           rec == Head(pending)[3]
       IN /\ CFDIS' = IF op = "append" /\ name = "cfdis.json"
                      THEN Append(CFDIS, rec) ELSE CFDIS
          /\ ALERTS' = IF op = "append" /\ name = "alerts.json"
                       THEN Append(ALERTS, rec) ELSE ALERTS
          /\ LOGS' = IF op = "append" /\ name = "logs.json"
                     THEN Append(LOGS, rec) ELSE LOGS
          /\ disk' = IF op = "open" THEN [disk EXCEPT ![name] = Partial]
                     ELSE IF op = "dump" THEN [disk EXCEPT ![name] = Complete(Collection(name))]
                     ELSE disk
          /\ response' = IF op = "respond" THEN name ELSE response
          /\ session' = IF op = "respond" THEN rec ELSE session
    /\ UNCHANGED <<EVIDENCES, next_uuid, clock, up, call>>

crash ==
    /\ up
    /\ up' = FALSE
    /\ pending' = <<>>
    /\ CFDIS' = <<>> /\ EVIDENCES' = <<>> /\ LOGS' = <<>> /\ ALERTS' = <<>>
    /\ response' = Resp("connection lost")
    /\ UNCHANGED <<disk, session, next_uuid, clock, call>>

\* load_db at start-up: an absent file reads as the default [], and json.load
\* raises on a file that was left truncated
restart ==
    /\ ~up
    /\ \A n \in DbFiles : disk[n].state # "partial"
    /\ up' = TRUE
    /\ CFDIS' = Persisted(disk, "cfdis.json")
    /\ EVIDENCES' = Persisted(disk, "evidences.json")
    /\ LOGS' = Persisted(disk, "logs.json")
    /\ ALERTS' = Persisted(disk, "alerts.json")
    /\ response' = Resp("none")
    /\ UNCHANGED <<disk, session, next_uuid, clock, pending, call>>

NextCrash ==
    \/ \E form \in LoginForms : start_login(form)
    \/ \E doc \in Docs : start_upload_cfdi(doc)
    \/ run_step
    \/ crash
    \/ restart

SpecCrash == Init /\ [][NextCrash]_vars

-----------------------------------------------------------------------------
(* classify_concept and risk_engine called directly on drawn arguments *)

Words == { <<"S","e","r","v">>,
           <<"S","E","R">>,
           <<"V">>,
           <<"a","r","r","e","n","d">>,
           <<"P","U","B","L","I">>,
           <<"M","a","r","k","e","t">>,
           <<"R","e","n","t","a"," ">> }

RECURSIVE WordSeqs(_)
WordSeqs(n) ==
    IF n = 0 THEN {<<>>}
    ELSE WordSeqs(n - 1) \cup {Append(ws, w) : ws \in WordSeqs(n - 1), w \in Words}

Texts == {Concat(ws) : ws \in WordSeqs(MaxWords)}

AnEvidence == [id |-> 1, cfdi_uuid |-> 2, filename |-> "contrato.pdf",
               hash |-> <<"sha256", "pdf-bytes">>, uploaded_at |-> 1]

EvidenceLists == {[i \in 1..n |-> AnEvidence] : n \in 0..MaxEvidArg}

InitPure ==
    /\ CFDIS = <<>> /\ EVIDENCES = <<>> /\ LOGS = <<>> /\ ALERTS = <<>>
    /\ disk = [n \in DbFiles \cup ExportFiles \cup {"uploads"} |->
                 IF n = "uploads" THEN {} ELSE Absent]
    /\ session = None /\ next_uuid = 0 /\ clock = 0 /\ response = Resp("none")
    /\ pending = <<>> /\ up = TRUE
    /\ \E t \in Texts, k \in Categories, rfc \in Rfcs, evs \in EvidenceLists :
          call = [fn |-> "none", concept |-> t, cfdi |-> [concept_type |-> k],
                  efos_check |-> check_rfc_efos(rfc, 0), evidences |-> evs,
                  result |-> None]

call_classify_concept ==
    /\ call.fn = "none"
    /\ call' = [call EXCEPT !.fn = "classify_concept",
                            !.result = classify_concept(call.concept)]
    /\ UNCHANGED <<CFDIS, EVIDENCES, LOGS, ALERTS, disk, session, next_uuid, clock,
                   response, pending, up>>

call_risk_engine ==
    /\ call.fn = "none"
    /\ call' = [call EXCEPT !.fn = "risk_engine",
                            !.result = risk_engine(call.cfdi, call.efos_check,
                                                   call.evidences)]
    /\ UNCHANGED <<CFDIS, EVIDENCES, LOGS, ALERTS, disk, session, next_uuid, clock,
                   response, pending, up>>

NextPure == call_classify_concept \/ call_risk_engine

SpecPure == InitPure /\ [][NextPure]_vars

-----------------------------------------------------------------------------
(* Claims *)

\* C1: for every combination of (issuer listed, evidence list empty, category
\* GENERIC) risk_engine returns score = the sum of the weights of the rules that
\* fire (+60 listed, +25 no evidence, +15 GENERIC), hence a score in
\* {0,15,25,40,60,75,85,100}; level ALTO iff score >= 60, MEDIO iff
\* 30 <= score < 60, BAJO iff score < 30; and reasons holds one string per rule
\* that fired, in the order listed, no-evidence, generic.
C1_RiskEngineTable ==
    call.fn = "risk_engine" =>
        LET listed == call.efos_check.is_efos
            noEvidence == Len(call.evidences) = 0
            generic == call.cfdi.concept_type = GENERICO
            r == call.result
        IN /\ r.score = (IF listed THEN 60 ELSE 0) + (IF noEvidence THEN 25 ELSE 0)
                        + (IF generic THEN 15 ELSE 0)
           /\ r.score \in {0, 15, 25, 40, 60, 75, 85, 100}
           /\ r.level \in {"ALTO", "MEDIO", "BAJO"}
           /\ (r.level = "ALTO") <=> (r.score >= 60)
           /\ (r.level = "MEDIO") <=> (30 <= r.score /\ r.score < 60)
           /\ (r.level = "BAJO") <=> (r.score < 30)
           /\ r.reasons = (IF listed THEN <<ReasonEfos>> ELSE <<>>)
                          \o (IF noEvidence THEN <<ReasonNoEvidence>> ELSE <<>>)
                          \o (IF generic THEN <<ReasonGeneric>> ELSE <<>>)

\* risk_engine has returned exactly 60 (the boundary of ALTO): a listed issuer
\* with evidence and a category other than GENERIC
C1_Witness ==
    /\ call.fn = "risk_engine"
    /\ call.efos_check.is_efos
    /\ call.evidences # <<>>
    /\ call.cfdi.concept_type # GENERICO
    /\ call.result.score = 60
    /\ call.result.level = "ALTO"

\* two characters are the same letter, whatever their case
SameLetter(a, b) ==
    \/ a = b
    \/ \E n \in 1..Len(LowerCase) : {a, b} = {LowerCase[n], UpperCase[n]}

\* text holds keyword kw somewhere, compared letter by letter without case
Mentions(text, kw) ==
    \E i \in 1..Len(text) :
        /\ i + Len(kw) - 1 <= Len(text)
        /\ \A j \in 1..Len(kw) : SameLetter(text[i + j - 1], kw[j])

\* C5: classify_concept returns a category for every text, and applies the
\* priority services > leasing > advertising > generic to case-insensitive
\* keyword matches: a services keyword wins whatever else the text holds, a
\* leasing keyword wins when no services keyword is there, an advertising
\* keyword when neither is, and a text with no keyword is GENERIC.
C5_ClassifierPriority ==
    call.fn = "classify_concept" =>
        LET t == call.concept
            serv == Mentions(t, KwSERV)
            arrend == Mentions(t, KwARREND)
            publi == Mentions(t, KwPUBLI) \/ Mentions(t, KwMARKET)
        IN /\ call.result \in Categories
           /\ serv => call.result = SERVICIOS
           /\ (~serv /\ arrend) => call.result = ARRENDAMIENTO
           /\ (~serv /\ ~arrend /\ publi) => call.result = PUBLICIDAD
           /\ (~serv /\ ~arrend /\ ~publi) => call.result = GENERICO

\* classify_concept has returned PROFESSIONAL_SERVICES for a text that holds a
\* services keyword in mixed case together with an advertising keyword
C5_Witness ==
    /\ call.fn = "classify_concept"
    /\ Mentions(call.concept, KwSERV)
    /\ ~StrIn(KwSERV, call.concept)
    /\ Mentions(call.concept, KwPUBLI)
    /\ call.result = SERVICIOS

-----------------------------------------------------------------------------
(* Claims about the stores *)

Range(q) == {q[i] : i \in 1..Len(q)}

\* b is a with entries appended at its end, or a itself
Extends(a, b) == Len(a) <= Len(b) /\ SubSeq(b, 1, Len(a)) = a

\* the evidence records that were in the store, linked to invoice c, when c
\* was assembled
EvidenceAtUpload(c) ==
    {j \in 1..Len(EVIDENCES) :
        EVIDENCES[j].cfdi_uuid = c.uuid /\ EVIDENCES[j].uploaded_at < c.created_at}

\* C2: after any sequence of uploads that ran to completion the alert store
\* holds exactly one alert for each stored invoice whose level is above BAJO and
\* none for an invoice whose level is BAJO, and each alert carries its invoice's
\* identifier, level and reasons.
C2_AlertsMatchInvoices ==
    /\ \A i \in 1..Len(CFDIS) :
          LET c == CFDIS[i]
              of == {j \in 1..Len(ALERTS) : ALERTS[j].cfdi_uuid = c.uuid}
          IN IF c.riesgo.level # "BAJO"
             THEN /\ Cardinality(of) = 1
                  /\ \A j \in of : /\ ALERTS[j].level = c.riesgo.level
                                   /\ ALERTS[j].reasons = c.riesgo.reasons
             ELSE of = {}
    /\ \A j \in 1..Len(ALERTS) : \E i \in 1..Len(CFDIS) : CFDIS[i].uuid = ALERTS[j].cfdi_uuid

\* an invoice above BAJO and an invoice at BAJO are both stored
C2_Witness ==
    /\ \E i \in 1..Len(CFDIS) : CFDIS[i].riesgo.level = "MEDIO"
    /\ \E i \in 1..Len(CFDIS) : CFDIS[i].riesgo.level = "BAJO"
    /\ Len(ALERTS) = 1

\* C3: a request that stores an evidence record, for whatever invoice
\* identifier, leaves every stored invoice record and the alert store (and their
\* files) as they were; the evidence store and the audit log only grow.
C3_EvidenceUploadFrame ==
    [][Len(EVIDENCES') > Len(EVIDENCES) =>
          /\ CFDIS' = CFDIS
          /\ ALERTS' = ALERTS
          /\ disk'["cfdis.json"] = disk["cfdis.json"]
          /\ disk'["alerts.json"] = disk["alerts.json"]
          /\ Extends(EVIDENCES, EVIDENCES')
          /\ Extends(LOGS, LOGS')]_vars

\* evidence was uploaded for an invoice already stored, whose assessment still
\* says that no evidence is loaded
C3_Witness ==
    \E i \in 1..Len(CFDIS), j \in 1..Len(EVIDENCES) :
        /\ EVIDENCES[j].cfdi_uuid = CFDIS[i].uuid
        /\ EVIDENCES[j].uploaded_at > CFDIS[i].created_at
        /\ ReasonNoEvidence \in Range(CFDIS[i].riesgo.reasons)

LacksElement(doc) == ~doc.Emisor \/ ~doc.Receptor \/ ~doc.Conceptos \/ ~doc.Concepto

HasLetter(s) == \E i \in 1..Len(s) : ~IsDigit(s[i]) /\ s[i] # "."

NonNumericAmount(doc) ==
    \E a \in {"SubTotal", "Total"} : a \in DOMAIN doc.attrib /\ HasLetter(doc.attrib[a])

MissingAmount(doc) == \E a \in {"SubTotal", "Total"} : a \notin DOMAIN doc.attrib

UploadFailed == response'.status = "500"

NothingStored ==
    /\ CFDIS' = CFDIS
    /\ ALERTS' = ALERTS
    /\ disk'["cfdis.json"] = disk["cfdis.json"]
    /\ disk'["alerts.json"] = disk["alerts.json"]

\* the documents of the inputs that lack an element or hold a non-numeric amount
RejectDocs == {doc \in Docs : LacksElement(doc) \/ NonNumericAmount(doc)}

\* those that lack SubTotal or Total and nothing else
ZeroDocs ==
    {doc \in Docs : doc.wellformed /\ MissingAmount(doc)
                    /\ ~LacksElement(doc) /\ ~NonNumericAmount(doc)}

\* a step that answered an upload of a parsed or rejected document
UploadAnswered ==
    session # None /\ (response'.status = "500" \/ Len(CFDIS') > Len(CFDIS))

\* C4 as stated: an upload whose document lacks Emisor, Receptor, Conceptos or
\* Concepto, or whose SubTotal/Total is missing or non-numeric, fails and appends
\* nothing to the invoice store, the alert store or their files.
C4_Original ==
    [][UploadAnswered =>
          ((\E doc \in RejectDocs \cup ZeroDocs : upload_cfdi(doc))
              => (UploadFailed /\ NothingStored))]_vars

\* C4 amended: an upload whose document lacks Emisor, Receptor, Conceptos or
\* Concepto, or whose SubTotal/Total is present and non-numeric, fails and
\* appends nothing to the invoice store, the alert store or their files; a
\* SubTotal or Total that is merely missing reads as 0 and the upload goes
\* through, storing a complete record.
C4_MalformedUploadStoresNothing ==
    [][UploadAnswered =>
          /\ (\E doc \in RejectDocs : upload_cfdi(doc))
                => (UploadFailed /\ NothingStored)
          /\ \A doc \in ZeroDocs :
                upload_cfdi(doc) =>
                   /\ ~UploadFailed
                   /\ Len(CFDIS') = Len(CFDIS) + 1
                   /\ LET c == CFDIS'[Len(CFDIS')]
                      IN /\ "SubTotal" \notin DOMAIN doc.attrib => c.subtotal = 0
                         /\ "Total" \notin DOMAIN doc.attrib => c.total = 0
                         /\ c.iva = c.total - c.subtotal
                         /\ c.concept = doc.Descripcion]_vars

\* an upload has just failed while an invoice was already stored, and the
\* invoice store and its file still hold that invoice alone
C4_Witness ==
    /\ response.status = "500"
    /\ Len(CFDIS) = 1
    /\ disk["cfdis.json"] = Complete(CFDIS)

\* invoice c is the scenario's: concept "Renta de oficina", issuer not listed,
\* one evidence record present for it when it was uploaded
RentaScenario(c) ==
    /\ c.concept = RentaDeOficina
    /\ ~c.efos.is_efos
    /\ Cardinality(EvidenceAtUpload(c)) = 1

LedgerOf(lines, q, fields, amounts) ==
    IF q = <<>> THEN lines = <<>>
    ELSE /\ Len(lines) = Len(q) + 1
         /\ lines[1] = fields
         /\ \A i \in 1..Len(q) :
               lines[i + 1] = <<q[i].uuid, q[i].emisor_rfc, q[i].concept, amounts[i], TRUE>>

\* C8: the ISR export holds one row per stored invoice of an ISR-deductible
\* category and the IVA export one row per stored invoice of an IVA-creditable
\* category, that is every invoice that is not GENERICO, in store order, and no
\* GENERICO one; with no such invoice the export is answered all the same and
\* its file is empty, without a header line.
C8_ExportsListQualifyingInvoices ==
    LET q == SelectSeq(CFDIS, LAMBDA c : c.concept_type # GENERICO)
        base == [i \in 1..Len(q) |-> q[i].subtotal]
        iva == [i \in 1..Len(q) |-> q[i].iva]
    IN /\ (response.status = "200 attachment" /\ response.name = "cedula_isr.csv") =>
             /\ response.body.state = "complete"
             /\ disk["cedula_isr.csv"] = response.body
             /\ LedgerOf(response.body.data, q, IsrFields, base)
       /\ (response.status = "200 attachment" /\ response.name = "cedula_iva.csv") =>
             /\ response.body.state = "complete"
             /\ disk["cedula_iva.csv"] = response.body
             /\ LedgerOf(response.body.data, q, IvaFields, iva)

\* the ISR export was answered with two invoice rows
C8_Witness ==
    /\ response.status = "200 attachment"
    /\ response.name = "cedula_isr.csv"
    /\ Len(response.body.data) = 3
    /\ Len(CFDIS) = 2

\* C9: at every step of every request, and wherever the process is killed, each
\* alert in the alert file refers to an invoice that is in the invoice file.
C9_PersistedAlertsHaveInvoices ==
    \A j \in 1..Len(Persisted(disk, "alerts.json")) :
        \E i \in 1..Len(Persisted(disk, "cfdis.json")) :
            Persisted(disk, "cfdis.json")[i].uuid = Persisted(disk, "alerts.json")[j].cfdi_uuid

\* C10: an invoice whose identifier was not the owning identifier of any
\* evidence record when it was uploaded was scored on an empty evidence list:
\* it carries the reason "Sin evidencias cargadas" and a score in
\* {25,40,85,100}, whatever other evidence had been uploaded before it.
C10_ScoredWithoutEvidence ==
    \A i \in 1..Len(CFDIS) :
        EvidenceAtUpload(CFDIS[i]) = {} =>
            /\ ReasonNoEvidence \in Range(CFDIS[i].riesgo.reasons)
            /\ CFDIS[i].riesgo.score \in {25, 40, 85, 100}

\* an invoice was uploaded after evidence for another identifier
C10_Witness ==
    \E i \in 1..Len(CFDIS), j \in 1..Len(EVIDENCES) :
        /\ EVIDENCES[j].uploaded_at < CFDIS[i].created_at
        /\ EVIDENCES[j].cfdi_uuid # CFDIS[i].uuid
        /\ EvidenceAtUpload(CFDIS[i]) = {}

====
